---- MODULE Spec2Model ----
(***************************************************************************)
(* State machine of the seekers-app shell (src/seekers-app/src/App.tsx,    *)
(* the full variant, lines 106-463): authentication bootstrap with the     *)
(* minimum loading delay, the seeker-profile check, the page state, the    *)
(* job feed and the swipe cursor, and the details modal.                   *)
(*                                                                         *)
(* React 18 semantics: every event handler, timer callback and promise     *)
(* continuation is one atomic step (automatic batching); the effect with   *)
(* dependencies [user, currentPage] runs right after the step that changed *)
(* one of them and is part of that step.  Session objects are fresh        *)
(* objects on every delivery, so setUser with a present user always        *)
(* changes the dependency.                                                 *)
(***************************************************************************)
EXTENDS Integers, Sequences, FiniteSets, TLC

VARIABLES
  user,                  \* useState<User | null>
  loading,               \* useState(true)
  currentPage,           \* useState<Page>("search-jobs")
  seekerProfileComplete, \* useState(false)
  jobs,                  \* useState<Job[]>([])
  jobsLoading,           \* useState(false)
  currentJobIndex,       \* useState(0)
  exitDirection,         \* useState<"left" | "right" | null>(null)
  isJobDetailsModalOpen, \* useState(false)
  selectedJob,           \* useState<Job | null>(null)
  now,                   \* Date.now() - start, in ms
  boot,                  \* progress of supabase.auth.getSession()
  delays,                \* pending minimum-delay timers, in creation order
  nextSeq,               \* number of the next identity notification
  checks,                \* profile queries in flight (by delivery number)
  fetches,               \* job_posts queries in flight
  timers,                \* pending 10 ms / 100 ms timers, in creation order
  signOutPending,        \* supabase.auth.signOut() in flight
  tornDown,              \* the auth effect's cleanup has run (App unmounted)
  actFetches,            \* history: fetches in flight that were started in
                         \* the current activation of the feed page
  userSeq,               \* history: number of the delivery that set user
  checkRes,              \* history: result of the check made for userSeq
  signOutFailed,         \* history: the last signOut call failed
  lastOp                 \* history: the step taken last ("apply", "swipe",
                         \* "button", "deferredSwipe", "cardClick",
                         \* "fetchOk", "fetchFailed"; "other" for the rest)

vars == <<user, loading, currentPage, seekerProfileComplete, jobs, jobsLoading,
          currentJobIndex, exitDirection, isJobDetailsModalOpen, selectedJob,
          now, boot, delays, nextSeq, checks, fetches, timers, signOutPending,
          tornDown, actFetches, userSeq, checkRes, signOutFailed, lastOp>>

authVars == <<user, loading, currentPage, seekerProfileComplete, boot, delays,
              nextSeq, checks, userSeq, checkRes>>

----------------------------------------------------------------------------
(* Program constant and bounds *)

MIN == 2500

Tick == 1250

MaxTime == 5000

MaxNotifs == 1

MaxJobs == 2

MaxFetches == 2

MaxTimers == 1

----------------------------------------------------------------------------
(* Values *)

NoUser == "null"

Users == {"s1", "c1"}

Sessions == Users \cup {NoUser}

UserType(u) == IF u = "c1" THEN "company" ELSE "job_seeker"

Pages == {"search-jobs", "user-profile", "complete-profile"}

NoJob == 0

NoDirection == "null"

\* The result lists of the job_posts query: newest first.
FeedLists == {[i \in 1..n |-> n - i + 1] : n \in 0..MaxJobs}

Max(a, b) == IF a > b THEN a ELSE b

RemoveAt(s, i) == [j \in 1..(Len(s) - 1) |-> IF j < i THEN s[j] ELSE s[j + 1]]

----------------------------------------------------------------------------
Init ==
  /\ user = NoUser
  /\ loading = TRUE
  /\ currentPage = "search-jobs"
  /\ seekerProfileComplete = FALSE
  /\ jobs = <<>>
  /\ jobsLoading = FALSE
  /\ currentJobIndex = 0
  /\ exitDirection = NoDirection
  /\ isJobDetailsModalOpen = FALSE
  /\ selectedJob = NoJob
  /\ now = 0
  /\ boot = "reading"
  /\ delays = <<>>
  /\ nextSeq = 1
  /\ checks = {}
  /\ fetches = 0
  /\ timers = <<>>
  /\ signOutPending = FALSE
  /\ tornDown = FALSE
  /\ actFetches = 0
  /\ userSeq = -1
  /\ checkRes = "none"
  /\ signOutFailed = FALSE
  /\ lastOp = "init"

----------------------------------------------------------------------------
(* Render conditions (lines 255, 302, 316, 337-360, 380-433) *)

LoadingScreen == loading

\* The main view (line 283) is on screen: App is mounted and not loading.
MainView == ~tornDown /\ ~loading

ShowsProfile ==
  MainView /\ user # NoUser /\ seekerProfileComplete /\ currentPage = "user-profile"

ShowsCompletion ==
  MainView /\ user # NoUser /\ ~seekerProfileComplete /\ currentPage = "complete-profile"

ShowsFeed ==
  MainView /\ user # NoUser /\ seekerProfileComplete /\ currentPage = "search-jobs"

ShowsRefresh == ShowsFeed /\ ~jobsLoading /\ Len(jobs) = 0

ShowsCard ==
  ShowsFeed /\ ~jobsLoading /\ Len(jobs) # 0 /\ currentJobIndex < Len(jobs)

ShowsStartOver ==
  ShowsFeed /\ ~jobsLoading /\ Len(jobs) # 0 /\ ~(currentJobIndex < Len(jobs))

----------------------------------------------------------------------------
(* The effect on [user, currentPage] (lines 206-210) and fetchJobs' start *)

\* TRUE when the effect runs after a step and calls fetchJobs.
FeedEffect(userChanged, u2, p2) ==
  /\ ~tornDown
  /\ userChanged \/ p2 # currentPage
  /\ u2 # NoUser
  /\ p2 = "search-jobs"

\* fetchJobs up to its await: setJobsLoading(true) and the query is issued.
FetchJobsStart(called) ==
  /\ called => fetches < MaxFetches
  /\ jobsLoading' = IF called THEN TRUE ELSE jobsLoading
  /\ fetches' = IF called THEN fetches + 1 ELSE fetches

\* History of the feed page's activation (a user is present and the page
\* is search-jobs): the fetches started in it and still in flight.  u2 and
\* p2 are the user and the page after the step.
Activation(called, u2, p2) ==
  actFetches' = IF u2 = NoUser \/ p2 # "search-jobs" THEN 0
                ELSE IF called THEN actFetches + 1
                ELSE actFetches

----------------------------------------------------------------------------
(* Authentication bootstrap (lines 126-160) *)

Start == 0

\* The subtraction the wrong way round: nothing remains for an early read.
RemainElapsedMinusMin(t) == Max(0, (t - Start) - MIN)

\* remain = Math.max(0, MIN - (Date.now() - start))
Remain(t) == Max(0, MIN - (t - Start))

\* setTimeout(..., MIN) in the onAuthStateChange handler
NotifyWait == MIN

\* checkSeekerCompletion up to its await (lines 163-177), and the else
\* branch of the timer callback (lines 136-139, 150-153).
IsSeeker(s) == s # NoUser /\ UserType(s) = "job_seeker"

PageAfterApply(s) ==
  IF s = NoUser THEN "search-jobs"
  ELSE IF UserType(s) # "job_seeker" THEN "user-profile"
  ELSE currentPage

CompleteAfterApply(s) ==
  IF s = NoUser THEN FALSE
  ELSE IF UserType(s) # "job_seeker" THEN FALSE
  ELSE seekerProfileComplete

\* A pending setTimeout: the delivery's number (0: the bootstrap read), the
\* session its callback captured, the time it was set and its delay.
Delay(seq, s, t, wait) == [seq |-> seq, session |-> s, set |-> t, wait |-> wait]

Due(d) == d.set + d.wait

\* Timers fire in the order of their due times.  The clock is coarser than
\* the timers, so two timers due at the same clock value fire in the order
\* their real due times fix: the bootstrap timer set with remain > 0 is due
\* exactly MIN after the start, before every notification's timer of that
\* clock value; notification timers (all of delay MIN) fire in creation
\* order; a bootstrap timer set with remain = 0 may fire before or after.
Precedes(d, e) ==
  \/ Due(d) < Due(e)
  \/ /\ Due(d) = Due(e)
     /\ \/ d.seq = 0 /\ d.wait > 0
        \/ d.seq # 0 /\ e.seq # 0 /\ d.seq < e.seq

FiresNext(i) ==
  /\ now >= Due(delays[i])
  /\ \A j \in DOMAIN delays : j # i => ~Precedes(delays[j], delays[i])

\* supabase.auth.getSession() resolves with session s (lines 130-142).
GetSessionResolved(s) ==
  /\ boot = "reading"
  /\ boot' = "resolved"
  /\ delays' = Append(delays, Delay(0, s, now, Remain(now)))
  /\ lastOp' = "other"
  /\ UNCHANGED <<tornDown, actFetches, user, loading, currentPage, seekerProfileComplete, jobs,
                 jobsLoading, currentJobIndex, exitDirection,
                 isJobDetailsModalOpen, selectedJob, now, nextSeq, checks,
                 fetches, timers, signOutPending, userSeq, checkRes,
                 signOutFailed>>

\* supabase.auth.getSession() rejects: no handler is attached.
GetSessionRejected ==
  /\ boot = "reading"
  /\ boot' = "rejected"
  /\ lastOp' = "other"
  /\ UNCHANGED <<tornDown, actFetches, user, loading, currentPage, seekerProfileComplete, jobs,
                 jobsLoading, currentJobIndex, exitDirection,
                 isJobDetailsModalOpen, selectedJob, now, delays, nextSeq,
                 checks, fetches, timers, signOutPending, userSeq, checkRes,
                 signOutFailed>>

\* The onAuthStateChange handler runs for a notification (lines 144-157).
AuthStateChange(s) ==
  /\ ~tornDown
  /\ nextSeq <= MaxNotifs
  /\ now + NotifyWait <= MaxTime
  /\ loading' = TRUE
  /\ delays' = Append(delays, Delay(nextSeq, s, now, NotifyWait))
  /\ nextSeq' = nextSeq + 1
  /\ signOutFailed' = FALSE
  /\ lastOp' = "other"
  /\ UNCHANGED <<tornDown, actFetches, user, currentPage, seekerProfileComplete, jobs, jobsLoading,
                 currentJobIndex, exitDirection, isJobDetailsModalOpen,
                 selectedJob, now, boot, checks, fetches, timers,
                 signOutPending, userSeq, checkRes>>

\* A minimum-delay timer fires (lines 132-141 and 146-155; the two
\* callbacks are the same code), followed by the [user, currentPage] effect.
DelayFires(i) ==
  /\ i \in DOMAIN delays
  /\ FiresNext(i)
  /\ LET s == delays[i].session
     IN /\ user' = s
        /\ currentPage' = PageAfterApply(s)
        /\ seekerProfileComplete' = CompleteAfterApply(s)
        /\ checks' = IF IsSeeker(s) THEN checks \cup {delays[i].seq} ELSE checks
        /\ loading' = FALSE
        /\ FetchJobsStart(FeedEffect(s # NoUser \/ user # NoUser, s,
                                     PageAfterApply(s)))
        /\ Activation(FeedEffect(s # NoUser \/ user # NoUser, s,
                                 PageAfterApply(s)), s, PageAfterApply(s))
        /\ userSeq' = delays[i].seq
        /\ checkRes' = IF s = NoUser THEN "none"
                       ELSE IF IsSeeker(s) THEN "pending" ELSE "notseeker"
  /\ delays' = RemoveAt(delays, i)
  /\ lastOp' = "apply"
  /\ UNCHANGED <<tornDown, jobs, currentJobIndex, exitDirection, isJobDetailsModalOpen,
                 selectedJob, now, boot, nextSeq, timers, signOutPending,
                 signOutFailed>>

----------------------------------------------------------------------------
(* checkSeekerCompletion after its await (lines 179-187) *)

CheckOutcomes == {"found", "absent", "error", "throw"}

PageAfterCheck(o) ==
  IF o \in {"absent", "error"} THEN "complete-profile" ELSE currentPage

CompleteAfterCheck(o) == o = "found"

ProfileQueryDone(q, o) ==
  /\ q \in checks
  /\ checks' = checks \ {q}
  /\ seekerProfileComplete' = CompleteAfterCheck(o)
  /\ currentPage' = PageAfterCheck(o)
  /\ FetchJobsStart(FeedEffect(FALSE, user, PageAfterCheck(o)))
  /\ Activation(FeedEffect(FALSE, user, PageAfterCheck(o)), user,
                PageAfterCheck(o))
  /\ checkRes' = IF q = userSeq THEN o ELSE checkRes
  /\ lastOp' = "other"
  /\ UNCHANGED <<tornDown, user, loading, jobs, currentJobIndex, exitDirection,
                 isJobDetailsModalOpen, selectedJob, now, boot, delays,
                 nextSeq, timers, signOutPending, userSeq, signOutFailed>>

----------------------------------------------------------------------------
(* fetchJobs after its await (lines 200-203) *)

FetchOutcomes == {"ok", "error", "throw"}

\* if (!error) setJobs(data || [])
JobsAfterFetch(o, data) == IF o = "ok" THEN data ELSE jobs

FetchJobsDone(o, data) ==
  /\ fetches > 0
  /\ fetches' = fetches - 1
  /\ \E cur \in BOOLEAN :
       /\ IF cur THEN actFetches > 0 ELSE fetches > actFetches
       /\ actFetches' = IF cur THEN actFetches - 1 ELSE actFetches
  /\ jobs' = JobsAfterFetch(o, data)
  /\ jobsLoading' = FALSE
  /\ lastOp' = IF o = "ok" THEN "fetchOk" ELSE "fetchFailed"
  /\ UNCHANGED <<tornDown, authVars, currentJobIndex, exitDirection,
                 isJobDetailsModalOpen, selectedJob, now, timers,
                 signOutPending, signOutFailed>>

\* The Refresh button (lines 392-397) calls fetchJobs.
Refresh ==
  /\ ShowsRefresh
  /\ FetchJobsStart(TRUE)
  /\ Activation(TRUE, user, currentPage)
  /\ lastOp' = "other"
  /\ UNCHANGED <<tornDown, authVars, jobs, currentJobIndex, exitDirection,
                 isJobDetailsModalOpen, selectedJob, now, timers,
                 signOutPending, signOutFailed>>

----------------------------------------------------------------------------
(* Navigation handlers (lines 213-230, 352-355) *)

HandleSignOut ==
  /\ MainView /\ user # NoUser
  /\ ~signOutPending
  /\ signOutPending' = TRUE
  /\ signOutFailed' = FALSE
  /\ lastOp' = "other"
  /\ UNCHANGED <<tornDown, actFetches, authVars, jobs, jobsLoading, currentJobIndex, exitDirection,
                 isJobDetailsModalOpen, selectedJob, now, fetches, timers>>

\* await supabase.auth.signOut() settles; the catch block is empty.
SignOutSettled(ok) ==
  /\ signOutPending
  /\ signOutPending' = FALSE
  /\ signOutFailed' = ~ok
  /\ lastOp' = "other"
  /\ UNCHANGED <<tornDown, actFetches, authVars, jobs, jobsLoading, currentJobIndex, exitDirection,
                 isJobDetailsModalOpen, selectedJob, now, fetches, timers>>

HandleUserNameClick ==
  /\ MainView /\ user # NoUser
  /\ currentPage' = "user-profile"
  /\ FetchJobsStart(FeedEffect(FALSE, user, "user-profile"))
  /\ Activation(FeedEffect(FALSE, user, "user-profile"), user, "user-profile")
  /\ lastOp' = "other"
  /\ UNCHANGED <<tornDown, user, loading, seekerProfileComplete, boot, delays, nextSeq,
                 checks, userSeq, checkRes, jobs, currentJobIndex,
                 exitDirection, isJobDetailsModalOpen, selectedJob, now,
                 timers, signOutPending, signOutFailed>>

\* The logo button (always rendered) and the Search Jobs link.
HandleSearchJobsClick ==
  /\ MainView
  /\ currentJobIndex' = 0
  /\ currentPage' = "search-jobs"
  /\ FetchJobsStart(FeedEffect(FALSE, user, "search-jobs"))
  /\ Activation(FeedEffect(FALSE, user, "search-jobs"), user, "search-jobs")
  /\ lastOp' = "other"
  /\ UNCHANGED <<tornDown, user, loading, seekerProfileComplete, boot, delays, nextSeq,
                 checks, userSeq, checkRes, jobs, exitDirection,
                 isJobDetailsModalOpen, selectedJob, now, timers,
                 signOutPending, signOutFailed>>

\* onProfileComplete of JobSeekerProfileCompletion
OnProfileComplete ==
  /\ ShowsCompletion
  /\ seekerProfileComplete' = TRUE
  /\ currentPage' = "user-profile"
  /\ FetchJobsStart(FeedEffect(FALSE, user, "user-profile"))
  /\ Activation(FeedEffect(FALSE, user, "user-profile"), user, "user-profile")
  /\ checkRes' = "completed"
  /\ lastOp' = "other"
  /\ UNCHANGED <<tornDown, user, loading, boot, delays, nextSeq, checks, userSeq, jobs,
                 currentJobIndex, exitDirection, isJobDetailsModalOpen,
                 selectedJob, now, timers, signOutPending, signOutFailed>>

----------------------------------------------------------------------------
(* Swipe navigation (lines 232-247, 420-425) *)

Directions == {"left", "right"}

SwipeTimer(c, n) == [kind |-> "swipe", c |-> c, n |-> n]

ClearTimer == [kind |-> "clear", c |-> 0, n |-> 0]

\* The wrap test off by one: the last card advances instead of wrapping.
NextIndexNoWrapAtLast(c, n, i) == IF c < n THEN i + 1 ELSE 0

\* handleSwipe of the render that saw cursor c and n jobs, applied to the
\* cursor state i: if (c < n - 1) setCurrentJobIndex(i => i + 1) else 0.
NextIndex(c, n, i) == IF c < n - 1 THEN i + 1 ELSE 0

\* JobCard's onSwipe: handleSwipe of the current render.
HandleSwipe(d) ==
  /\ ShowsCard
  /\ Len(timers) < MaxTimers
  /\ currentJobIndex' = NextIndex(currentJobIndex, Len(jobs), currentJobIndex)
  /\ timers' = Append(timers, ClearTimer)
  /\ lastOp' = "swipe"
  /\ UNCHANGED <<tornDown, actFetches, authVars, jobs, jobsLoading, exitDirection,
                 isJobDetailsModalOpen, selectedJob, now, fetches,
                 signOutPending, signOutFailed>>

ActionDirection(a) == IF a = "reject" THEN "left" ELSE "right"

\* The reject / approve buttons: handleSwipe of this render runs 10 ms later.
HandleActionButton(a) ==
  /\ ShowsCard
  /\ Len(timers) < MaxTimers
  /\ exitDirection' = ActionDirection(a)
  /\ timers' = Append(timers, SwipeTimer(currentJobIndex, Len(jobs)))
  /\ lastOp' = "button"
  /\ UNCHANGED <<tornDown, actFetches, authVars, jobs, jobsLoading, currentJobIndex,
                 isJobDetailsModalOpen, selectedJob, now, fetches,
                 signOutPending, signOutFailed>>

\* The 10 ms timer of handleActionButton fires.  10 ms timers fire in
\* creation order; a 100 ms timer created earlier may still be pending.
DeferredSwipe(k) ==
  /\ k \in DOMAIN timers
  /\ timers[k].kind = "swipe"
  /\ \A j \in 1..(k - 1) : timers[j].kind # "swipe"
  /\ currentJobIndex' = NextIndex(timers[k].c, timers[k].n, currentJobIndex)
  /\ timers' = Append(RemoveAt(timers, k), ClearTimer)
  /\ lastOp' = "deferredSwipe"
  /\ UNCHANGED <<tornDown, actFetches, authVars, jobs, jobsLoading, exitDirection,
                 isJobDetailsModalOpen, selectedJob, now, fetches,
                 signOutPending, signOutFailed>>

\* The 100 ms timer of handleSwipe fires: setExitDirection(null).  It is
\* due after every timer created before it.
ClearExitDirection ==
  /\ timers # <<>>
  /\ Head(timers).kind = "clear"
  /\ exitDirection' = NoDirection
  /\ timers' = Tail(timers)
  /\ lastOp' = "other"
  /\ UNCHANGED <<tornDown, actFetches, authVars, jobs, jobsLoading, currentJobIndex,
                 isJobDetailsModalOpen, selectedJob, now, fetches,
                 signOutPending, signOutFailed>>

StartOver ==
  /\ ShowsStartOver
  /\ currentJobIndex' = 0
  /\ lastOp' = "other"
  /\ UNCHANGED <<tornDown, actFetches, authVars, jobs, jobsLoading, exitDirection,
                 isJobDetailsModalOpen, selectedJob, now, fetches, timers,
                 signOutPending, signOutFailed>>

----------------------------------------------------------------------------
(* Details modal (lines 249-252, 456-461) *)

\* A card click that also dismisses the card.
HandleJobCardClickAdvancing ==
  /\ ShowsCard
  /\ selectedJob' = jobs[currentJobIndex + 1]
  /\ isJobDetailsModalOpen' = TRUE
  /\ lastOp' = "cardClick"
  /\ currentJobIndex' = NextIndex(currentJobIndex, Len(jobs), currentJobIndex)
  /\ UNCHANGED <<tornDown, actFetches, authVars, jobs, jobsLoading, exitDirection,
                 now, fetches, timers, signOutPending, signOutFailed>>

HandleJobCardClick ==
  /\ ShowsCard
  /\ selectedJob' = jobs[currentJobIndex + 1]
  /\ isJobDetailsModalOpen' = TRUE
  /\ lastOp' = "cardClick"
  /\ UNCHANGED <<tornDown, actFetches, authVars, jobs, jobsLoading, currentJobIndex, exitDirection,
                 now, fetches, timers, signOutPending, signOutFailed>>

ModalClose ==
  /\ MainView
  /\ isJobDetailsModalOpen
  /\ isJobDetailsModalOpen' = FALSE
  /\ lastOp' = "other"
  /\ UNCHANGED <<tornDown, actFetches, authVars, jobs, jobsLoading, currentJobIndex, exitDirection,
                 selectedJob, now, fetches, timers, signOutPending,
                 signOutFailed>>

----------------------------------------------------------------------------
(* Teardown (line 159) *)

\* The cleanup of the auth effect: listener.subscription.unsubscribe().
\* The function the handler returns (line 156, clearTimeout(wait)) goes to
\* supabase, which does not call it, so pending timers stay; their
\* callbacks, and the continuations of queries in flight, still run and
\* call the state setters.  Nothing is rendered and no effect runs any more.
Teardown ==
  /\ ~tornDown
  /\ tornDown' = TRUE
  /\ lastOp' = "other"
  /\ UNCHANGED <<authVars, actFetches, jobs, jobsLoading, currentJobIndex,
                 exitDirection, isJobDetailsModalOpen, selectedJob, now,
                 fetches, timers, signOutPending, signOutFailed>>

----------------------------------------------------------------------------
(* Time *)

\* Time advances once every timer that is due has fired; the 10 ms and
\* 100 ms timers are due before the clock's next step.
Advance ==
  /\ now + Tick <= MaxTime
  /\ \A i \in DOMAIN delays : Due(delays[i]) > now
  /\ timers = <<>>
  /\ now' = now + Tick
  /\ lastOp' = "other"
  /\ UNCHANGED <<tornDown, actFetches, authVars, jobs, jobsLoading, currentJobIndex, exitDirection,
                 isJobDetailsModalOpen, selectedJob, fetches, timers,
                 signOutPending, signOutFailed>>

----------------------------------------------------------------------------
Next ==
  \/ \E s \in Sessions : GetSessionResolved(s)
  \/ GetSessionRejected
  \/ \E s \in Sessions : AuthStateChange(s)
  \/ \E i \in DOMAIN delays : DelayFires(i)
  \/ \E q \in checks, o \in CheckOutcomes : ProfileQueryDone(q, o)
  \/ \E o \in FetchOutcomes, data \in FeedLists : FetchJobsDone(o, data)
  \/ Refresh
  \/ HandleSignOut
  \/ \E ok \in BOOLEAN : SignOutSettled(ok)
  \/ HandleUserNameClick
  \/ HandleSearchJobsClick
  \/ OnProfileComplete
  \/ \E d \in Directions : HandleSwipe(d)
  \/ \E a \in {"reject", "approve"} : HandleActionButton(a)
  \/ \E k \in DOMAIN timers : DeferredSwipe(k)
  \/ ClearExitDirection
  \/ StartOver
  \/ HandleJobCardClick
  \/ ModalClose
  \/ Teardown
  \/ Advance

Spec == Init /\ [][Next]_vars

----------------------------------------------------------------------------
(* Claims *)

\* C1: in every reachable state the cursor lies inside the list or at its
\* end: 0 <= currentJobIndex <= jobs.length.
C1_CursorWithinList ==
  0 <= currentJobIndex /\ currentJobIndex <= Len(jobs)

\* C2: a swipe gesture on the card at cursor c, 0 <= c < length, moves the
\* cursor to (c + 1) mod length and leaves the job list as it was.
C2_SwipeAdvancesModLength ==
  [][lastOp' = "swipe" =>
       /\ currentJobIndex' = (currentJobIndex + 1) % Len(jobs)
       /\ jobs' = jobs]_vars

\* A swipe on the last card of a full list has wrapped the cursor to 0.
C2_Witness ==
  lastOp = "swipe" /\ currentJobIndex = 0 /\ Len(jobs) = MaxJobs

\* C3: right after a successful fetchJobs replaced the job list, the cursor
\* is 0.
C3_ReplacedListResetsCursor ==
  lastOp = "fetchOk" => currentJobIndex = 0

\* C4: whenever the loading screen is off and no user is signed in, the
\* page state is the feed page.
C4_AbsentSessionShowsFeed ==
  (~loading /\ user = NoUser) => currentPage = "search-jobs"

\* C5: while the check made for the present job seeker has found no
\* profile record (and the completion flow has not reported completion),
\* the page state is complete-profile.
C5_SeekerWithoutRecordCompletes ==
  (IsSeeker(user) /\ checkRes = "absent") => currentPage = "complete-profile"

\* C6: once the check made for the present job seeker has found a profile
\* record, the page state is the profile or the feed page, never
\* complete-profile.
C6_SeekerWithRecordNeverCompletes ==
  (IsSeeker(user) /\ checkRes = "found") =>
    currentPage \in {"user-profile", "search-jobs"}

\* C7: while the present user is not a job seeker, the page state is the
\* profile page.
C7_OtherUserTypeShowsProfile ==
  (user # NoUser /\ ~IsSeeker(user)) => currentPage = "user-profile"

\* The time a delivery was issued: the start for the bootstrap read, the
\* arrival for a notification.
IssuedAt(d) == IF d.seq = 0 THEN Start ELSE d.set

\* C8: a delivery (the bootstrap read or a notification) is applied to the
\* user state no sooner than MIN ms after the app started (bootstrap) or
\* after the notification arrived.
C8_MinimumDelay ==
  [][lastOp' = "apply" =>
       \E i \in DOMAIN delays :
         /\ delays[i].seq = userSeq'
         /\ delays' = RemoveAt(delays, i)
         /\ now >= IssuedAt(delays[i]) + MIN]_vars

\* The bootstrap read resolved early and its identity was applied exactly
\* MIN ms after the start.
C8_Witness ==
  lastOp = "apply" /\ userSeq = 0 /\ now = Start + MIN

\* C9: deliveries are applied in the order they were issued: the number of
\* the delivery held in the user state never goes down.
C9_DeliveriesAppliedInOrder ==
  [][userSeq' >= userSeq]_vars

\* Nothing of the app is in flight: no read, timer, query or call.
Quiescent ==
  /\ boot # "reading"
  /\ delays = <<>>
  /\ checks = {}
  /\ fetches = 0
  /\ timers = <<>>
  /\ ~signOutPending

\* C10: after a failed signOut call, and with no further notification, the
\* app comes to rest signed out.
C10_FailedSignOutStillClears ==
  (signOutFailed /\ Quiescent) => user = NoUser

\* C11: right after fetchJobs completed with an error, the job list is
\* empty, whatever it held before.
C11_FailedFetchEmptiesList ==
  lastOp = "fetchFailed" => jobs = <<>>

\* C12: while the check for the identity that set the user state has not
\* resolved, the profile status is not complete.
C12_PendingCheckNotComplete ==
  checkRes = "pending" => ~seekerProfileComplete

\* C13: whenever the main view is shown for a present user, exactly one of
\* the three page views (profile, complete-profile, feed) is rendered.
C13_ExactlyOnePageView ==
  (MainView /\ user # NoUser) =>
    Cardinality({v \in {<<1, ShowsProfile>>, <<2, ShowsCompletion>>,
                        <<3, ShowsFeed>>} : v[2]}) = 1

\* C14: whenever the details modal is closed, no job is selected.
C14_ClosedModalHoldsNoJob ==
  ~isJobDetailsModalOpen => selectedJob = NoJob

\* C15: a swipe, a button action and its deferred handleSwipe leave the
\* details selection (selectedJob, isJobDetailsModalOpen) as it was, and a
\* card click leaves the cursor and the exit direction as they were.
C15_DetailsAndSwipeIndependent ==
  [][/\ lastOp' \in {"swipe", "button", "deferredSwipe"} =>
          UNCHANGED <<selectedJob, isJobDetailsModalOpen>>
     /\ lastOp' = "cardClick" => UNCHANGED <<currentJobIndex, exitDirection>>
    ]_vars

\* A swipe was made with the details modal open on a job.
C15_Witness ==
  lastOp = "swipe" /\ isJobDetailsModalOpen /\ selectedJob # NoJob

\* C16: at most one fetch started in the current activation of the feed
\* page is in flight.
C16_OneFetchPerActivation ==
  actFetches <= 1

\* C17: when handleSwipe has moved the cursor to a card that is rendered,
\* that card carries no exit direction.
C17_NewCardHasNoExitDirection ==
  [][(/\ lastOp' \in {"swipe", "deferredSwipe"}
      /\ currentJobIndex' # currentJobIndex
      /\ ShowsCard') => exitDirection' = NoDirection]_vars

DeliveriesSettled == boot # "reading" /\ delays = <<>> /\ checks = {}

\* C19: once every delivery and every check has completed, the profile
\* status of the present user is the result of the check made for that
\* user (or of the completion flow), not one left by an earlier identity's
\* check.
C19_StatusIsCurrentUsersResult ==
  (DeliveriesSettled /\ user # NoUser) =>
    (seekerProfileComplete <=> checkRes \in {"found", "completed"})

\* C20: while a delivery's minimum-delay timer is pending, the loading flag
\* is set.
C20_PendingDelayShowsLoading ==
  delays # <<>> => loading

====
